---------------------------- MODULE Spec2Model ----------------------------
(***************************************************************************)
(* A model of sail (src/main.cpp): the build orchestrator build_project,   *)
(* the four subcommand handlers and main, over a POSIX filesystem.         *)
(*                                                                         *)
(* Text is a sequence of one-character strings.  A path is a record        *)
(* [abs, parts]: parts is the sequence of its components, abs tells the    *)
(* root directory "/" is in front.  The filesystem root is Path(<<>>), the *)
(* empty std::filesystem::path is EmptyPath.  The filesystem is a set of   *)
(* directories and a function from the paths of regular files to their     *)
(* content.  call holds one call of a helper function, its arguments and,  *)
(* once it has returned, its result.                                       *)
(***************************************************************************)
EXTENDS Integers, Sequences, FiniteSets, TLC

VARIABLES dirs, files, cwd, last, budget, call

vars == <<dirs, files, cwd, last, budget, call>>

---------------------------------------------------------------------------
(* Bounds of the model.                                                    *)

\* Commands and user steps in one behaviour of Spec.
MaxOps == 2
\* Depth of the chain of nested directories Spec starts from.
MaxDepth == 2
\* Tokens of a hand-written manifest in SpecManifest.
MaxTokens == 5
\* Characters of a project name written into a manifest in SpecManifest.
MaxNameLen == 2
\* Runs of build_project on one manifest in SpecManifest.
MaxBuilds == 1

---------------------------------------------------------------------------
(* Program constants.                                                      *)

EXIT_SUCCESS == 0
EXIT_FAILURE == 1
\* std::string::npos, the size_t value 2^64 - 1, by its representative
\* modulo 2^64: npos + 1 = 0, as in the code's unsigned arithmetic.  No
\* size_t is compared by order in the code that is modelled.
NPOS == -1

\* What std::system returns: 0, or a nonzero wait status.
SystemResults == {0, 256}

---------------------------------------------------------------------------
(* Text.                                                                   *)

Quote == <<"\"">>
Newline == <<"\n">>
Marker == <<"n", "a", "m", "e", " ", "=", " ", "\"">>

SetMin(S) == CHOOSE i \in S : \A j \in S : i <= j

\* pat occurs in s at the 0-based offset i.
MatchAt(s, pat, i) ==
  /\ i >= 0
  /\ i + Len(pat) <= Len(s)
  /\ \A k \in 1..Len(pat) : s[i + k] = pat[k]

\* std::string::find(pat, from): the lowest offset >= from where pat occurs.
Find(s, pat, from) ==
  LET hits == {i \in from..(Len(s) - Len(pat)) : MatchAt(s, pat, i)}
  IN  IF hits = {} THEN NPOS ELSE SetMin(hits)

\* std::string::substr(pos, n), for pos <= size.
Substr(s, pos, n) ==
  SubSeq(s, pos + 1, IF pos + n > Len(s) THEN Len(s) ELSE pos + n)

RECURSIVE Concat(_)
Concat(ss) == IF ss = <<>> THEN <<>> ELSE Head(ss) \o Concat(Tail(ss))

\* The lines successive std::getline calls extract from a stream holding s.
RECURSIVE GetLines(_)
GetLines(s) ==
  IF s = <<>> THEN <<>>
  ELSE LET nl == Find(s, Newline, 0)
       IN  IF nl = NPOS THEN <<s>>
           ELSE <<SubSeq(s, 1, nl)>> \o GetLines(SubSeq(s, nl + 2, Len(s)))

---------------------------------------------------------------------------
(* Paths and the filesystem.                                               *)

Path(parts) == [abs |-> TRUE, parts |-> parts]
EmptyPath == [abs |-> FALSE, parts |-> <<>>]

\* operator/ with a one-component right-hand side.  An empty right-hand side
\* gives p with a trailing separator, which names the directory p itself.
Join(p, name) ==
  IF name = <<>> THEN p ELSE [abs |-> p.abs, parts |-> Append(p.parts, name)]
parent_path(p) ==
  IF p.parts = <<>> THEN p
  ELSE [abs |-> p.abs, parts |-> SubSeq(p.parts, 1, Len(p.parts) - 1)]
root_path(p) == IF p.abs THEN Path(<<>>) ELSE EmptyPath
filename(p) == IF p.parts = <<>> THEN <<>> ELSE p.parts[Len(p.parts)]

Separator == <<"/">>

\* A directory separator of the platform: in a build for Windows the
\* backslash is one too.
IsSeparator(win32, c) == c = "/" \/ (win32 /\ c = "\\")

\* The components of a pathname: the text between its separators, with
\* nothing for a run of separators, and an empty last component for a
\* pathname that ends in a separator after a component.
RECURSIVE Components(_, _)
Components(win32, text) ==
  LET seps == {i \in 1..Len(text) : IsSeparator(win32, text[i])}
      sep == SetMin(seps)
      rest == SubSeq(text, sep + 1, Len(text))
  IN  IF text = <<>> THEN <<>>
      ELSE IF seps = {} THEN <<text>>
      ELSE IF sep = 1 THEN Components(win32, Tail(text))
      ELSE IF \A i \in 1..Len(rest) : IsSeparator(win32, rest[i])
      THEN <<SubSeq(text, 1, sep - 1), <<>>>>
      ELSE <<SubSeq(text, 1, sep - 1)>> \o Components(win32, rest)

\* std::filesystem::path constructed from a string.  A leading separator is
\* a root directory; root names (drive letters) are not modelled, a path
\* with a root directory stands for one below the root name at hand.
PathOf(win32, text) ==
  [abs |-> text /= <<>> /\ IsSeparator(win32, Head(text)),
   parts |-> Components(win32, text)]

\* operator/ of two paths: a right-hand side with a root directory replaces
\* the left-hand side, any other is appended to it.
Slash(p, q) ==
  IF q.abs THEN q ELSE [abs |-> p.abs, parts |-> p.parts \o q.parts]

\* std::filesystem::path::string.
RECURSIVE JoinParts(_)
JoinParts(parts) ==
  IF parts = <<>> THEN <<>>
  ELSE IF Len(parts) = 1 THEN Head(parts)
  ELSE Head(parts) \o Separator \o JoinParts(Tail(parts))
PathString(p) == (IF p.abs THEN Separator ELSE <<>>) \o JoinParts(p.parts)

SailToml == <<"S", "a", "i", "l", ".", "t", "o", "m", "l">>
CMakeLists == <<"C", "M", "a", "k", "e", "L", "i", "s", "t", "s", ".", "t", "x", "t">>
SrcName == <<"s", "r", "c">>
TargetName == <<"t", "a", "r", "g", "e", "t">>
DebugName == <<"d", "e", "b", "u", "g">>
ReleaseName == <<"r", "e", "l", "e", "a", "s", "e">>
BuildName == <<"b", "u", "i", "l", "d">>
MainCpp == <<"m", "a", "i", "n", ".", "c", "p", "p">>

\* std::filesystem::exists.
exists(fs, p) == p \in fs.dirs \/ p \in DOMAIN fs.files

PutFile(f, p, content) ==
  [q \in DOMAIN f \cup {p} |-> IF q = p THEN content ELSE f[q]]

\* An ofstream on p opens: its directory is there and p is no directory.
CanOpenForWrite(fs, p) == parent_path(p) \in fs.dirs /\ p \notin fs.dirs

\* p and the paths above it, the root excluded.
RECURSIVE Ancestors(_)
Ancestors(p) ==
  IF p.parts = <<>> THEN {} ELSE {p} \cup Ancestors(parent_path(p))

\* std::filesystem::create_directories succeeds: no component is a file.
CanCreateDirectories(fs, p) == Ancestors(p) \cap DOMAIN fs.files = {}
create_directories(fs, p) ==
  [dirs |-> fs.dirs \cup Ancestors(p), files |-> fs.files]

---------------------------------------------------------------------------
(* Templates the program writes.                                           *)

\* The Sail.toml text of handle_new_command and handle_init_command.
ManifestContent(name) ==
  <<"[", "p", "r", "o", "j", "e", "c", "t", "]", "\n",
    "n", "a", "m", "e", " ", "=", " ", "\"">>
  \o name \o
  <<"\"", "\n", "v", "e", "r", "s", "i", "o", "n", " ", "=", " ", "\"",
    "0", ".", "1", ".", "0", "\"", "\n", "\n",
    "[", "d", "e", "p", "e", "n", "d", "e", "n", "c", "i", "e", "s", "]", "\n">>

\* The CMakeLists.txt text of build_project, as the sequence of its pieces:
\* the template's fixed text between the five placeholders, and the name.
cmake_content(name) ==
  <<"cmake_minimum_required(VERSION 3.21)\n\nproject(">> \o name \o
  <<" VERSION 0.1.0 LANGUAGES CXX)\n\nset(CMAKE_CXX_STANDARD 17)\nset(CMAKE_CXX_STANDARD_REQUIRED ON)\n\n# Collect all source files\nfile(GLOB_RECURSE SOURCES src/*.cpp src/*.c)\n\n# Create executable\nadd_executable(">>
  \o name \o
  <<" ${SOURCES})\n\n# Set output directory based on build type\nset_target_properties(">>
  \o name \o
  <<" PROPERTIES\n    RUNTIME_OUTPUT_DIRECTORY_DEBUG \"${CMAKE_SOURCE_DIR}/target/debug\"\n    RUNTIME_OUTPUT_DIRECTORY_RELEASE \"${CMAKE_SOURCE_DIR}/target/release\"\n)\n\n# Ensure consistent output name across platforms\nset_target_properties(">>
  \o name \o <<" PROPERTIES OUTPUT_NAME \"">> \o name \o <<"\")\n">>

main_cpp_content ==
  <<"#include <iostream>\n\nint main() {\n    std::cout << \"Hello, World!\" << std::endl;\n    return 0;\n}\n">>

\* What the toolchain leaves at the artifact path.
ArtifactContent == <<"<executable>">>

---------------------------------------------------------------------------
(* get_executable_path.  win32 tells the build is one for Windows; the     *)
(* program of Spec is a build for another platform.                        *)

WIN32 == FALSE

EXECUTABLE_EXTENSION(win32) == IF win32 THEN <<".", "e", "x", "e">> ELSE <<>>

get_executable_path(win32, target_dir, project_name) ==
  Slash(target_dir, PathOf(win32, project_name \o EXECUTABLE_EXTENSION(win32)))

---------------------------------------------------------------------------
(* quote_path.                                                             *)

Space == <<" ">>
Backslash == <<"\\">>

\* std::string::insert(pos, str).
Insert(s, pos, str) == SubSeq(s, 1, pos) \o str \o SubSeq(s, pos + 1, Len(s))

\* The loop of lines 40-43 from pos on, in a build for a platform other than
\* Windows: result when the loop is left, and the rounds it took.
RECURSIVE quote_path_loop(_, _, _)
quote_path_loop(result, pos, rounds) ==
  LET found == Find(result, Space, pos)
  IN  IF found = NPOS THEN [result |-> result, rounds |-> rounds]
      ELSE quote_path_loop(Insert(result, found, Backslash), found + 2, rounds + 1)

quote_path(win32, path) ==
  IF win32 THEN Quote \o path \o Quote ELSE quote_path_loop(path, 0, 0).result

---------------------------------------------------------------------------
(* build_project: root discovery.                                          *)

\* The condition of the walk's loop.
WalkContinues(current_path) == current_path /= root_path(current_path)

\* The walk without its break: a manifest further up replaces a nearer one.
RECURSIVE find_project_root_no_break(_, _)
find_project_root_no_break(fs, current_path) ==
  IF ~WalkContinues(current_path) THEN EmptyPath
  ELSE LET further == find_project_root_no_break(fs, parent_path(current_path))
       IN  IF further /= EmptyPath THEN further
           ELSE IF exists(fs, Join(current_path, SailToml)) THEN current_path
           ELSE EmptyPath

\* The walk with project_root assigned on every round: with no manifest it
\* ends holding the last directory visited.
RECURSIVE find_project_root_unchecked(_, _)
find_project_root_unchecked(fs, current_path) ==
  IF ~WalkContinues(current_path) THEN current_path
  ELSE IF exists(fs, Join(current_path, SailToml)) THEN current_path
  ELSE find_project_root_unchecked(fs, parent_path(current_path))

\* The walk from current_path: the first directory on the way up that holds
\* Sail.toml, or the empty path.
RECURSIVE find_project_root(_, _)
find_project_root(fs, current_path) ==
  IF ~WalkContinues(current_path) THEN EmptyPath
  ELSE IF exists(fs, Join(current_path, SailToml)) THEN current_path
  ELSE find_project_root(fs, parent_path(current_path))

---------------------------------------------------------------------------
(* build_project: the manifest scan.                                       *)

LineHasMarker(line) == Find(line, Marker, 0) /= NPOS
\* NameStart without the step past the double quote.
NameStart_at_quote(line) == Find(line, Quote, 0)
NameStart(line) == Find(line, Quote, 0) + 1
NameEnd(line, start) == Find(line, Quote, start)

\* The body of the getline loop on one line: whether the loop is left with
\* project_name assigned, and the value assigned.
ScanLine(line) ==
  LET start == NameStart(line)
      end == NameEnd(line, start)
  IN  IF LineHasMarker(line) /\ start /= NPOS /\ end /= NPOS
      THEN [selected |-> TRUE, name |-> Substr(line, start, end - start)]
      ELSE [selected |-> FALSE, name |-> <<>>]

\* The getline loop without its break: the last selected line gives the
\* name and every line is read.
RECURSIVE ScanLines_no_break(_, _)
ScanLines_no_break(lines, i) ==
  IF i > Len(lines) THEN [name |-> <<>>, read |-> Len(lines)]
  ELSE LET this == ScanLine(lines[i])
           rest == ScanLines_no_break(lines, i + 1)
       IN  IF this.selected /\ rest.name = <<>>
           THEN [name |-> this.name, read |-> Len(lines)]
           ELSE rest

\* The getline loop from line i on: project_name when the loop is left and
\* the number of lines read by then.
RECURSIVE ScanLines(_, _)
ScanLines(lines, i) ==
  IF i > Len(lines) THEN [name |-> <<>>, read |-> Len(lines)]
  ELSE LET this == ScanLine(lines[i])
       IN  IF this.selected THEN [name |-> this.name, read |-> i]
           ELSE ScanLines(lines, i + 1)

read_project_name(content) == ScanLines(GetLines(content), 1)

---------------------------------------------------------------------------
(* build_project.                                                          *)

\* What the environment does to one run of build_project: the step that
\* fails for a reason outside the model (permissions, a full disk), whether
\* the text of CMakeLists.txt reaches the file whole, what the two cmake
\* processes return, and whether the build leaves the artifact.
BuildFaults == {"none", "toml_open", "mkdir_target", "cmake_open", "mkdir_build"}
AllBuildEnvs ==
  [fault : BuildFaults, cmake_write : {"full", "partial"},
   configure : SystemResults, build : SystemResults, artifact : BOOLEAN]

\* The environments with at most one thing going wrong.  A run returns at
\* the first failure, so what comes after it is never consulted.
Anomalies(e) ==
  (IF e.fault /= "none" THEN 1 ELSE 0) + (IF e.cmake_write /= "full" THEN 1 ELSE 0)
  + (IF e.configure /= 0 THEN 1 ELSE 0) + (IF e.build /= 0 THEN 1 ELSE 0)
  + (IF ~e.artifact THEN 1 ELSE 0)
BuildEnvs == {e \in AllBuildEnvs : Anomalies(e) <= 1}

build_mode(release_mode) ==
  IF release_mode THEN <<"R", "e", "l", "e", "a", "s", "e">>
  ELSE <<"D", "e", "b", "u", "g">>
\* The debug directory in both modes.
target_subdir_debug(release_mode) == DebugName
target_subdir(release_mode) == IF release_mode THEN ReleaseName ELSE DebugName

\* What a run did: the root it selected, whether it opened the manifest, the
\* name it read and the lines it read for it, whether it wrote CMakeLists.txt
\* and how that write went, the processes it started, the error line it
\* printed, the code build_project returned, and the command line that
\* handle_run_command handed to the shell.
NoBuild ==
  [root |-> EmptyPath, opened |-> FALSE, name |-> <<>>, read |-> 0,
   wrote_cmake |-> FALSE, cmake_write |-> "none", calls |-> <<>>,
   message |-> "none", result |-> EXIT_SUCCESS, run_command |-> <<>>]

\* A failing return that happens with the directories of the build already
\* made.
Failed_after_mkdir(fs, info, message) ==
  [fs |-> IF info.root = EmptyPath THEN fs
          ELSE create_directories(fs, Join(Join(info.root, TargetName), DebugName)),
   code |-> EXIT_FAILURE, path |-> EmptyPath,
   info |-> [info EXCEPT !.message = message, !.result = EXIT_FAILURE]]

\* return {EXIT_FAILURE, {}} after the error line message.
Failed(fs, info, message) ==
  [fs |-> fs, code |-> EXIT_FAILURE, path |-> EmptyPath,
   info |-> [info EXCEPT !.message = message, !.result = EXIT_FAILURE]]

\* The text that reaches CMakeLists.txt.
Written(content, how) == IF how = "full" THEN content ELSE SubSeq(content, 1, 1)

\* CMakeLists.txt generated on every run.
MustGenerate_always(fs, cmake_path) == TRUE
\* CMakeLists.txt is generated: the condition of line 113.
MustGenerate(fs, cmake_path) == ~exists(fs, cmake_path)

\* The result of configure not looked at.
ConfigureOk_ignored(configure_result) == TRUE
\* The build invocation is issued: the negation of line 158's condition.
ConfigureOk(configure_result) == configure_result = 0

\* The result of the build not looked at.
BuildOk_ignored(build_result) == TRUE
\* The artifact path is computed: the negation of line 171's condition.
BuildOk(build_result) == build_result = 0

ConfigureCall(release_mode, rc) ==
  [tool |-> "configure", type |-> build_mode(release_mode), rc |-> rc]
BuildCall(release_mode, rc) ==
  [tool |-> "build", type |-> build_mode(release_mode), rc |-> rc]

\* Lines 145-177: the build directory and the two cmake processes.
RunToolchain(fs, release_mode, env, target_dir, info) ==
  LET build_dir == Join(target_dir, BuildName)
      fs1 == create_directories(fs, build_dir)
      conf == [info EXCEPT !.calls = <<ConfigureCall(release_mode, env.configure)>>]
      both == [conf EXCEPT !.calls = Append(@, BuildCall(release_mode, env.build))]
      executable_path == get_executable_path(WIN32, target_dir, info.name)
      fs2 == IF env.artifact /\ executable_path \notin fs1.dirs
             THEN [fs1 EXCEPT !.files = PutFile(@, executable_path, ArtifactContent)]
             ELSE fs1
  IN  IF env.fault = "mkdir_build" \/ ~CanCreateDirectories(fs, build_dir)
      THEN Failed(fs, info, "filesystem_error")
      ELSE IF ~ConfigureOk(env.configure)
      THEN Failed(fs1, conf, "CMake configuration failed")
      ELSE IF ~BuildOk(env.build) THEN Failed(fs1, both, "Build failed")
      ELSE [fs |-> fs2, code |-> EXIT_SUCCESS, path |-> executable_path, info |-> both]

\* Lines 102-143: the target directory and CMakeLists.txt.
PrepareAndBuild(fs, release_mode, env, info) ==
  LET target_dir == Join(Join(info.root, TargetName), target_subdir(release_mode))
      fs1 == create_directories(fs, target_dir)
      cmake_path == Join(info.root, CMakeLists)
      fs2 == [fs1 EXCEPT !.files =
                PutFile(@, cmake_path, Written(cmake_content(info.name), env.cmake_write))]
  IN  IF env.fault = "mkdir_target" \/ ~CanCreateDirectories(fs, target_dir)
      THEN Failed(fs, info, "filesystem_error")
      ELSE IF MustGenerate(fs1, cmake_path)
      THEN IF env.fault = "cmake_open" \/ ~CanOpenForWrite(fs1, cmake_path)
           THEN Failed(fs1, info, "Failed to create CMakeLists.txt")
           ELSE RunToolchain(fs2, release_mode, env, target_dir,
                             [info EXCEPT !.wrote_cmake = TRUE,
                                          !.cmake_write = env.cmake_write])
      ELSE RunToolchain(fs1, release_mode, env, target_dir, info)

\* build_project started in current_path, in each environment of envs: the
\* filesystem it leaves, the pair it returns (code, path) and what it did on
\* the way (info).
build_project(fs, current_path, release_mode, envs) ==
  LET project_root == find_project_root(fs, current_path)
      sail_toml_path == Join(project_root, SailToml)
      found == [NoBuild EXCEPT !.root = project_root]
      \* a directory named Sail.toml opens and yields no line
      read == IF sail_toml_path \in DOMAIN fs.files
              THEN read_project_name(fs.files[sail_toml_path])
              ELSE [name |-> <<>>, read |-> 0]
      named == [found EXCEPT !.opened = TRUE, !.name = read.name, !.read = read.read]
  IN  {IF project_root = EmptyPath THEN Failed(fs, NoBuild, "Sail.toml not found")
       ELSE IF env.fault = "toml_open"
       THEN Failed(fs, found, "Failed to read Sail.toml")
       ELSE IF read.name = <<>>
       THEN Failed(fs, named, "Could not find project name")
       ELSE IF ~exists(fs, Join(project_root, SrcName))
       THEN Failed(fs, named, "src directory not found")
       ELSE PrepareAndBuild(fs, release_mode, env, named) : env \in envs}

---------------------------------------------------------------------------
(* The handlers.                                                           *)

RunCall(rc) == [tool |-> "run", type |-> <<>>, rc |-> rc]

\* Lines 205-208: the command line of the program and its arguments.
RECURSIVE run_command(_, _)
run_command(executable_path, run_args) ==
  IF run_args = <<>> THEN quote_path(WIN32, PathString(executable_path))
  ELSE run_command(executable_path, SubSeq(run_args, 1, Len(run_args) - 1))
         \o Space \o quote_path(WIN32, run_args[Len(run_args)])

\* handle_run_command without its test that the executable is there.
RunAfter_unchecked(b, run_args, run_result) ==
  IF b.code /= EXIT_SUCCESS
  THEN [fs |-> b.fs, code |-> b.code, path |-> b.path, info |-> b.info,
        missing |-> FALSE]
  ELSE [fs |-> b.fs, code |-> run_result, path |-> b.path,
        info |-> [b.info EXCEPT !.calls = Append(@, RunCall(run_result)),
                                !.run_command = run_command(b.path, run_args)],
        missing |-> FALSE]

\* handle_run_command after build_project gave b, when std::system would
\* return run_result: b with the handler's return value as code, and whether
\* the handler reported the executable missing.
RunAfter(b, run_args, run_result) ==
  IF b.code /= EXIT_SUCCESS
  THEN [fs |-> b.fs, code |-> b.code, path |-> b.path, info |-> b.info,
        missing |-> FALSE]
  ELSE IF ~exists(b.fs, b.path)
  THEN [fs |-> b.fs, code |-> EXIT_FAILURE, path |-> b.path,
        info |-> [b.info EXCEPT !.message = "Executable not found"],
        missing |-> TRUE]
  ELSE [fs |-> b.fs, code |-> run_result, path |-> b.path,
        info |-> [b.info EXCEPT !.calls = Append(@, RunCall(run_result)),
                                !.run_command = run_command(b.path, run_args)],
        missing |-> FALSE]

handle_run_command(fs, current_path, run_release, run_args, envs) ==
  {RunAfter(b, run_args, run_result) :
     b \in build_project(fs, current_path, run_release, envs),
     run_result \in SystemResults}

\* handle_build_command with a missing executable made a failure.
BuildAfter_strict(b) ==
  IF b.code /= EXIT_SUCCESS \/ ~exists(b.fs, b.path)
  THEN [fs |-> b.fs, code |-> EXIT_FAILURE, path |-> b.path, info |-> b.info,
        missing |-> b.code = EXIT_SUCCESS]
  ELSE [fs |-> b.fs, code |-> EXIT_SUCCESS, path |-> b.path, info |-> b.info,
        missing |-> FALSE]

\* handle_build_command after build_project gave b.
BuildAfter(b) ==
  IF b.code /= EXIT_SUCCESS
  THEN [fs |-> b.fs, code |-> b.code, path |-> b.path, info |-> b.info,
        missing |-> FALSE]
  ELSE [fs |-> b.fs, code |-> EXIT_SUCCESS, path |-> b.path, info |-> b.info,
        missing |-> ~exists(b.fs, b.path)]

handle_build_command(fs, current_path, build_release, envs) ==
  {BuildAfter(b) : b \in build_project(fs, current_path, build_release, envs)}

NewFaults == {"none", "mkdir", "mkdir_src", "toml_open", "cpp_open"}

\* handle_new_command; fault is the step the environment lets fail.
handle_new_command(fs, current_path, new_project_name, fault) ==
  LET project_dir == Join(current_path, new_project_name)
      src_dir == Join(project_dir, SrcName)
      sail_toml_path == Join(project_dir, SailToml)
      fs1 == [fs EXCEPT !.dirs = @ \cup {project_dir}]
      fs2 == [fs1 EXCEPT !.dirs = @ \cup {src_dir}]
      fs3 == [fs2 EXCEPT !.files =
                PutFile(@, sail_toml_path, ManifestContent(new_project_name))]
      fs4 == [fs3 EXCEPT !.files =
                PutFile(@, Join(src_dir, MainCpp), main_cpp_content)]
  IN  IF exists(fs, project_dir) THEN [fs |-> fs, code |-> EXIT_FAILURE]
      ELSE IF fault = "mkdir" \/ current_path \notin fs.dirs
      THEN [fs |-> fs, code |-> EXIT_FAILURE]
      ELSE IF fault = "mkdir_src" THEN [fs |-> fs1, code |-> EXIT_FAILURE]
      ELSE IF fault = "toml_open" THEN [fs |-> fs2, code |-> EXIT_FAILURE]
      ELSE IF fault = "cpp_open" THEN [fs |-> fs3, code |-> EXIT_FAILURE]
      ELSE [fs |-> fs4, code |-> EXIT_SUCCESS]

\* handle_init_command without its test for a Sail.toml that is there.
handle_init_command_overwrite(fs, current_path, open_ok) ==
  LET sail_toml_path == Join(current_path, SailToml)
  IN  IF ~open_ok \/ ~CanOpenForWrite(fs, sail_toml_path)
      THEN [fs |-> fs, code |-> EXIT_FAILURE]
      ELSE [fs |-> [fs EXCEPT !.files =
                      PutFile(@, sail_toml_path, ManifestContent(filename(current_path)))],
            code |-> EXIT_SUCCESS]

\* handle_init_command; open_ok is whether the environment lets the file open.
handle_init_command(fs, current_path, open_ok) ==
  LET project_name == filename(current_path)
      sail_toml_path == Join(current_path, SailToml)
  IN  IF exists(fs, sail_toml_path) THEN [fs |-> fs, code |-> EXIT_FAILURE]
      ELSE IF ~open_ok \/ ~CanOpenForWrite(fs, sail_toml_path)
      THEN [fs |-> fs, code |-> EXIT_FAILURE]
      ELSE [fs |-> [fs EXCEPT !.files =
                      PutFile(@, sail_toml_path, ManifestContent(project_name))],
            code |-> EXIT_SUCCESS]

\* main's return value after a subcommand was parsed and its callback, whose
\* return value is handler_result, has run.
main(handler_result) == EXIT_SUCCESS

\* The vector main hands to handle_run_command when the command line has
\* the arguments argv after `run`: main binds the vector to no option of the
\* subcommand, so the parser never puts anything into it.
main_run_args(argv) == <<>>

---------------------------------------------------------------------------
(* The state machine: one action per run of the program, by subcommand,    *)
(* and the user's own steps between runs.  last describes the run that     *)
(* just ended, while the filesystem is as that run left it; a user's step  *)
(* clears it.                                                              *)

FS == [dirs |-> dirs, files |-> files]

\* No helper call is being looked at.
NoCall ==
  [fn |-> "none", win32 |-> FALSE, dir |-> EmptyPath, text |-> <<>>,
   returned |-> FALSE, path |-> EmptyPath, result |-> <<>>, rounds |-> 0]

NoCommand ==
  [cmd |-> "none", release |-> FALSE, start |-> EmptyPath,
   handler |-> EXIT_SUCCESS, exit |-> EXIT_SUCCESS, path |-> EmptyPath,
   info |-> NoBuild, missing |-> FALSE, args |-> <<>>]

\* The run that just ended: the subcommand, its flag and the arguments given
\* after it, where it was started, and what the handler returned (r).
Ran(cmd, release, args, r) ==
  [cmd |-> cmd, release |-> release, start |-> cwd, handler |-> r.code,
   exit |-> main(r.code), path |-> r.path, info |-> r.info, missing |-> r.missing,
   args |-> args]

Leaves(fs) ==
  /\ dirs' = fs.dirs
  /\ files' = fs.files
  /\ cwd' = cwd
  /\ budget' = budget - 1
  /\ call' = call

\* sail build [--release]
MainBuild(envs) ==
  /\ budget > 0
  /\ \E build_release \in BOOLEAN :
       \E r \in handle_build_command(FS, cwd, build_release, envs) :
         Leaves(r.fs) /\ last' = Ran("build", build_release, <<>>, r)

\* sail run [--release] [argv...], the parser letting argv pass.
MainRun(envs, argvs) ==
  /\ budget > 0
  /\ \E run_release \in BOOLEAN, argv \in argvs :
       \E r \in handle_run_command(FS, cwd, run_release, main_run_args(argv), envs) :
         Leaves(r.fs) /\ last' = Ran("run", run_release, argv, r)

\* sail run [--release] argv..., the parser refusing the arguments it has no
\* option for: CLI11_PARSE returns a nonzero code of the library's before
\* any callback has run.
MainRunRefused(argvs) ==
  /\ budget > 0
  /\ \E run_release \in BOOLEAN, argv \in argvs \ {<<>>} :
       /\ Leaves(FS)
       /\ last' = [NoCommand EXCEPT !.cmd = "run", !.release = run_release,
                                    !.start = cwd, !.args = argv,
                                    !.exit = EXIT_FAILURE]

\* sail new <name>
MainNew(names) ==
  /\ budget > 0
  /\ \E new_project_name \in names, fault \in NewFaults :
       LET r == handle_new_command(FS, cwd, new_project_name, fault)
       IN  /\ Leaves(r.fs)
           /\ last' = Ran("new", FALSE, <<new_project_name>>,
                          [code |-> r.code, path |-> EmptyPath, info |-> NoBuild,
                           missing |-> FALSE])

\* sail init
MainInit ==
  /\ budget > 0
  /\ \E open_ok \in BOOLEAN :
       LET r == handle_init_command(FS, cwd, open_ok)
       IN  /\ Leaves(r.fs)
           /\ last' = Ran("init", FALSE, <<>>,
                          [code |-> r.code, path |-> EmptyPath, info |-> NoBuild,
                           missing |-> FALSE])

\* The user changes directory, one level up or down.
Chdir ==
  /\ budget > 0
  /\ \E d \in dirs :
       /\ d /= cwd
       /\ d = parent_path(cwd) \/ parent_path(d) = cwd
       /\ cwd' = d
  /\ budget' = budget - 1
  /\ last' = NoCommand
  /\ UNCHANGED <<dirs, files, call>>

UserCMakeTexts == {<<"# edited by hand\n">>}

\* The user writes or rewrites CMakeLists.txt in the current directory.
UserEditCMake ==
  /\ budget > 0
  /\ \E text \in UserCMakeTexts :
       /\ CanOpenForWrite(FS, Join(cwd, CMakeLists))
       /\ Join(cwd, CMakeLists) \in DOMAIN files => files[Join(cwd, CMakeLists)] /= text
       /\ files' = PutFile(files, Join(cwd, CMakeLists), text)
  /\ budget' = budget - 1
  /\ last' = NoCommand
  /\ UNCHANGED <<dirs, cwd, call>>

\* The user writes or rewrites Sail.toml in the current directory.
UserWriteManifest(texts) ==
  /\ budget > 0
  /\ \E text \in texts :
       /\ CanOpenForWrite(FS, Join(cwd, SailToml))
       /\ Join(cwd, SailToml) \in DOMAIN files => files[Join(cwd, SailToml)] /= text
       /\ files' = PutFile(files, Join(cwd, SailToml), text)
  /\ budget' = budget - 1
  /\ last' = NoCommand
  /\ UNCHANGED <<dirs, cwd, call>>

---------------------------------------------------------------------------
(* Spec: the program on a chain of nested directories.                     *)

Digits == <<"1", "2", "3", "4", "5", "6", "7", "8", "9">>
DirName(i) == <<"d", Digits[i]>>

\* The directory at depth i of the chain: /d1/d2/.../di.
Level(i) == Path([k \in 1..i |-> DirName(k)])

\* A directory of the chain is plain, or is a project: it holds the manifest
\* `sail init` writes there and a src directory.
Layouts == [0..MaxDepth -> {"plain", "project"}]

LayoutDirs(lay) ==
  {Level(i) : i \in 0..MaxDepth}
    \cup {Join(Level(i), SrcName) : i \in {j \in 0..MaxDepth : lay[j] = "project"}}
LayoutFiles(lay) ==
  [p \in {Join(Level(i), SailToml) : i \in {j \in 0..MaxDepth : lay[j] /= "plain"}}
     |-> ManifestContent(filename(parent_path(p)))]

\* The name given to `sail new`: taken in one directory of the chain, free
\* in the others.
SpecNames == {DirName(MaxDepth)}

\* Manifests the user writes by hand: another name, and no name at all.
SpecTexts == {ManifestContent(<<"x">>), <<"[", "p", "]", "\n">>}

Init ==
  /\ \E lay \in Layouts : dirs = LayoutDirs(lay) /\ files = LayoutFiles(lay)
  /\ cwd = Level(MaxDepth)
  /\ last = NoCommand
  /\ budget = MaxOps
  /\ call = NoCall

Next ==
  \/ MainBuild(BuildEnvs)
  \/ MainRun(BuildEnvs, {<<>>})
  \/ MainNew(SpecNames)
  \/ MainInit
  \/ Chdir
  \/ UserEditCMake
  \/ UserWriteManifest(SpecTexts)

Spec == Init /\ [][Next]_vars

---------------------------------------------------------------------------
(* SpecManifest: builds in a project /w whose manifest is any text made of *)
(* a few tokens, or the text the scaffolding commands write for any short  *)
(* name.                                                                   *)

\* Sequences over S of length at most n.
SeqsUpTo(S, n) == UNION {[1..k -> S] : k \in 0..n}

Tokens == {Marker, Quote, <<"a">>, Newline}
TokenTexts == {Concat(ts) : ts \in SeqsUpTo(Tokens, MaxTokens)}

NameChars == {"a", " ", "\"", "\n"}
NameStrings == SeqsUpTo(NameChars, MaxNameLen)
ScaffoldTexts == {ManifestContent(X) : X \in NameStrings}

WorkDir == Path(<<<<"w">>>>)
WorkManifest == Join(WorkDir, SailToml)

InitManifest ==
  /\ dirs = {Path(<<>>), WorkDir, Join(WorkDir, SrcName)}
  /\ \E text \in TokenTexts \cup ScaffoldTexts :
       files = PutFile(<<>>, WorkManifest, text)
  /\ cwd = WorkDir
  /\ last = NoCommand
  /\ budget = MaxBuilds
  /\ call = NoCall

\* The environment in which nothing goes wrong.
GoodEnvs == {e \in AllBuildEnvs : Anomalies(e) = 0}

NextManifest == MainBuild(GoodEnvs)

SpecManifest == InitManifest /\ [][NextManifest]_vars

---------------------------------------------------------------------------
(* SpecRun: `sail run` in the project /w, with arguments for the program   *)
(* on the command line.                                                    *)

\* Runs of the program in one behaviour of SpecRun.
MaxRuns == 1
\* Arguments given after `run` on one command line.
MaxArgs == 2

RunArgs == {<<"a">>, <<"b", " ", "c">>}
RunArgvs == SeqsUpTo(RunArgs, MaxArgs)

InitRun ==
  /\ dirs = {Path(<<>>), WorkDir, Join(WorkDir, SrcName)}
  /\ files = PutFile(<<>>, WorkManifest, ManifestContent(filename(WorkDir)))
  /\ cwd = WorkDir
  /\ last = NoCommand
  /\ budget = MaxRuns
  /\ call = NoCall

NextRun == MainRun(BuildEnvs, RunArgvs) \/ MainRunRefused(RunArgvs)

SpecRun == InitRun /\ [][NextRun]_vars

---------------------------------------------------------------------------
(* SpecHelpers: one call of get_executable_path or of quote_path, in a     *)
(* build for either platform, on arguments of a few characters.            *)

\* Characters of a text handed to a helper function.
MaxTextLen == 4

HelperChars == {"a", " ", "\\", "/"}
HelperTexts == SeqsUpTo(HelperChars, MaxTextLen)
HelperDirs == {Path(<<<<"w">>, TargetName, DebugName>>), PathOf(FALSE, TargetName)}

InitHelpers ==
  /\ dirs = {Path(<<>>)}
  /\ files = <<>>
  /\ cwd = Path(<<>>)
  /\ last = NoCommand
  /\ budget = 0
  /\ \E win32 \in BOOLEAN, text \in HelperTexts :
       \/ \E dir \in HelperDirs :
            call = [NoCall EXCEPT !.fn = "get_executable_path", !.win32 = win32,
                                  !.dir = dir, !.text = text]
       \/ call = [NoCall EXCEPT !.fn = "quote_path", !.win32 = win32, !.text = text]

CallGetExecutablePath ==
  /\ call.fn = "get_executable_path"
  /\ ~call.returned
  /\ call' = [call EXCEPT !.returned = TRUE,
                          !.path = get_executable_path(call.win32, call.dir, call.text)]
  /\ UNCHANGED <<dirs, files, cwd, last, budget>>

CallQuotePath ==
  /\ call.fn = "quote_path"
  /\ ~call.returned
  /\ call' = [call EXCEPT !.returned = TRUE,
                          !.result = quote_path(call.win32, call.text),
                          !.rounds = IF call.win32 THEN 0
                                     ELSE quote_path_loop(call.text, 0, 0).rounds]
  /\ UNCHANGED <<dirs, files, cwd, last, budget>>

NextHelpers == CallGetExecutablePath \/ CallQuotePath

SpecHelpers == InitHelpers /\ [][NextHelpers]_vars

---------------------------------------------------------------------------
(* Vocabulary of the claims.                                               *)

\* The run that just ended went through build_project.
Built == last.cmd \in {"build", "run"}

\* The directories the walk may visit from p: p and everything above it.
Chain(p) == Ancestors(p) \cup {root_path(p)}
HoldsManifest(p) == exists(FS, Join(p, SailToml))
ManifestDirs(p) == {q \in Chain(p) : HoldsManifest(q)}
Depth(p) == Len(p.parts)

---------------------------------------------------------------------------
(* C1.                                                                     *)

\* C1: the process exit code is 0 when the handler of the subcommand
\* succeeded and nonzero when it failed.
C1_ExitCodeFollowsHandler ==
  last.cmd /= "none" =>
    /\ last.handler = EXIT_SUCCESS => last.exit = 0
    /\ last.handler /= EXIT_SUCCESS => last.exit /= 0

---------------------------------------------------------------------------
(* C2 - C4: root discovery.                                                *)

\* C2: started at or below a directory R that holds Sail.toml, with no
\* Sail.toml nearer to the start, the walk selects R.
C2_DescendantFindsRoot ==
  Built =>
    \A R \in ManifestDirs(last.start) :
      (\A q \in ManifestDirs(last.start) : Depth(q) <= Depth(R))
        => last.info.root = R

\* C3: with Sail.toml in two or more directories of the chain, the walk
\* selects the one nearest to the start.
C3_ClosestAncestorWins ==
  Built /\ Cardinality(ManifestDirs(last.start)) >= 2 =>
    /\ last.info.root \in ManifestDirs(last.start)
    /\ \A q \in ManifestDirs(last.start) : Depth(q) <= Depth(last.info.root)

\* A run that chose the nearer of two manifests, from below both.
C3_Witness ==
  /\ Built
  /\ Cardinality(ManifestDirs(last.start)) >= 2
  /\ last.info.root /= last.start
  /\ last.info.root \in ManifestDirs(last.start)

\* C4: with no Sail.toml anywhere on the chain, build_project returns
\* EXIT_FAILURE and an empty path, reports the project not found, and has
\* opened no manifest.
C4_NoManifestNotFound ==
  Built /\ ManifestDirs(last.start) = {} =>
    /\ last.handler = EXIT_FAILURE
    /\ last.path = EmptyPath
    /\ last.info.message = "Sail.toml not found"
    /\ last.info.root = EmptyPath
    /\ ~last.info.opened
    /\ last.info.calls = <<>>

\* A run from a nested directory with no manifest up to the root.
C4_Witness ==
  /\ Built
  /\ ManifestDirs(last.start) = {}
  /\ Depth(last.start) >= 2
  /\ last.handler = EXIT_FAILURE

---------------------------------------------------------------------------
(* C5 - C8: the manifest scan, in SpecManifest.                            *)

NoQuote(X) == \A i \in 1..Len(X) : X[i] /= "\""
NoNewline(X) == \A i \in 1..Len(X) : X[i] /= "\n"

\* build_project took the name the scan gave it.
NameAccepted == last.info.opened /\ last.info.message /= "Could not find project name"

\* C5, as claimed: a manifest written for any name X without a double quote
\* is read back as project name X.
C5_RoundTripAnyName ==
  \A X \in NameStrings :
    Built /\ NoQuote(X) /\ files[WorkManifest] = ManifestContent(X)
      => last.info.name = X /\ NameAccepted

\* C5, amended: a manifest written for any non-empty name X without a double
\* quote and without a line break is read back as project name X.
C5_RoundTrip ==
  \A X \in NameStrings :
    Built /\ X /= <<>> /\ NoQuote(X) /\ NoNewline(X)
          /\ files[WorkManifest] = ManifestContent(X)
      => last.info.name = X /\ NameAccepted

\* A name with a space in it came back from the manifest written for it.
C5_Witness ==
  /\ Built
  /\ files[WorkManifest] = ManifestContent(<<"a", " ">>)
  /\ last.info.name = <<"a", " ">>
  /\ NameAccepted

\* The lines of the manifest of /w, and those with the marker name = ".
ManifestLines == GetLines(files[WorkManifest])
HasMarkerAt(line, m) ==
  /\ m + 8 <= Len(line)
  /\ SubSeq(line, m + 1, m + 8) = Marker
MarkerLines ==
  {i \in 1..Len(ManifestLines) :
     \E m \in 0..Len(ManifestLines[i]) : HasMarkerAt(ManifestLines[i], m)}
QuotesOf(line) == {i \in 1..Len(line) : line[i] = "\""}
\* The marker lines with a second double quote.
ClosedMarkerLines == {i \in MarkerLines : Cardinality(QuotesOf(ManifestLines[i])) >= 2}
\* The text between the first two double quotes of a line.
BetweenFirstQuotes(line) ==
  LET q1 == SetMin(QuotesOf(line))
      q2 == SetMin(QuotesOf(line) \ {q1})
  IN  SubSeq(line, q1 + 1, q2 - 1)

\* C6, as claimed: the scan stops at the first line that contains the
\* marker; no later line is read.
C6_FirstMarkerLineWins ==
  Built /\ MarkerLines /= {} => last.info.read = SetMin(MarkerLines)

\* C6, amended: the scan stops at the first line that contains the marker
\* and at least two double quotes, and the name is the text between the
\* first two double quotes of that line; marker lines with one double quote
\* are passed over, and with no such line every line is read and no name
\* is found.
C6_FirstClosedMarkerLineWins ==
  Built =>
    IF ClosedMarkerLines = {}
    THEN last.info.read = Len(ManifestLines) /\ last.info.name = <<>>
    ELSE /\ last.info.read = SetMin(ClosedMarkerLines)
         /\ last.info.name = BetweenFirstQuotes(ManifestLines[SetMin(ClosedMarkerLines)])

\* The scan stopped at a line with a name although a later line has the
\* marker too.
C6_Witness ==
  /\ Built
  /\ last.info.name /= <<>>
  /\ \E i \in ClosedMarkerLines, j \in MarkerLines : i < j /\ last.info.read = i

\* The text between the double quote that ends the first marker of a line
\* and the next double quote.
AfterMarker(line) ==
  LET m == SetMin({k \in 0..Len(line) : HasMarkerAt(line, k)})
      q2 == SetMin({i \in QuotesOf(line) : i > m + 8})
  IN  SubSeq(line, m + 9, q2 - 1)
HasPattern(line) ==
  \E m \in 0..Len(line) :
    HasMarkerAt(line, m) /\ \E i \in QuotesOf(line) : i > m + 8

\* C7: the name taken from the selected line is the text between the first
\* and the second double quote that follow the marker.
C7_NameFollowsMarker ==
  Built /\ ClosedMarkerLines /= {} /\ HasPattern(ManifestLines[last.info.read])
    => last.info.name = AfterMarker(ManifestLines[last.info.read])

\* C8: when no line of the manifest contains name = "...", build_project
\* reports the name missing, returns EXIT_FAILURE and an empty path, creates
\* no directory, writes no file and starts no process.
C8_NoPatternFails ==
  [][ /\ last'.cmd \in {"build", "run"}
      /\ last'.info.opened
      /\ \A i \in 1..Len(ManifestLines) : ~HasPattern(ManifestLines[i])
      => /\ last'.handler = EXIT_FAILURE
         /\ last'.path = EmptyPath
         /\ last'.info.message = "Could not find project name"
         /\ last'.info.calls = <<>>
         /\ dirs' = dirs
         /\ files' = files ]_vars

---------------------------------------------------------------------------
(* C9, C10.                                                                *)

CMakeFiles(f) == {p \in DOMAIN f : filename(p) = CMakeLists}

\* C9: a run of build_project leaves every CMakeLists.txt that exists as it
\* is, and writes one only at the project root and only if none is there.
C9_BuildDescriptionKept ==
  [][ last'.cmd \in {"build", "run"} =>
        /\ \A p \in CMakeFiles(files) : p \in DOMAIN files' /\ files'[p] = files[p]
        /\ \A p \in CMakeFiles(files') \ CMakeFiles(files) :
             p = Join(last'.info.root, CMakeLists) ]_vars

\* A run that went on to the toolchain with a CMakeLists.txt the user wrote.
C9_Witness ==
  /\ Built
  /\ last.info.calls /= <<>>
  /\ ~last.info.wrote_cmake
  /\ Join(last.info.root, CMakeLists) \in DOMAIN files
  /\ files[Join(last.info.root, CMakeLists)] \in UserCMakeTexts

\* C10: the build invocation comes only right after a configure invocation
\* that returned 0; after a configure invocation that returned nonzero
\* nothing more is started and the run fails.
C10_BuildOnlyAfterConfigure ==
  Built =>
    LET calls == last.info.calls
    IN  /\ \A i \in 1..Len(calls) :
             calls[i].tool = "build" =>
               i > 1 /\ calls[i - 1].tool = "configure" /\ calls[i - 1].rc = 0
        /\ \A i \in 1..Len(calls) :
             calls[i].tool = "configure" /\ calls[i].rc /= 0 =>
               i = Len(calls) /\ last.handler = EXIT_FAILURE

\* A run whose configure invocation failed.
C10_Witness ==
  /\ Built
  /\ Len(last.info.calls) = 1
  /\ last.info.calls[1].tool = "configure"
  /\ last.info.calls[1].rc /= 0

---------------------------------------------------------------------------
(* C11 - C15: the outcomes of build_project and what the handlers make of  *)
(* them.                                                                   *)

\* The processes of the run that just ended, by tool.
CallsOf(tool) == {i \in 1..Len(last.info.calls) : last.info.calls[i].tool = tool}
\* The build invocation of the run that just ended returned nonzero.
BuildStepFailed ==
  \E i \in CallsOf("build") : last.info.calls[i].rc /= 0

\* C11: when configure returned 0 and the build invocation returned nonzero,
\* build_project returns EXIT_FAILURE and the empty path after reporting the
\* build failed; the handler returns that failure, reports no missing
\* executable, and run starts no program.
C11_BuildFailureStops ==
  Built /\ BuildStepFailed =>
    /\ last.info.result = EXIT_FAILURE
    /\ last.info.message = "Build failed"
    /\ last.path = EmptyPath
    /\ last.handler = EXIT_FAILURE
    /\ ~last.missing
    /\ CallsOf("run") = {}
    /\ Len(last.info.calls) = 2
    /\ last.info.calls[1].tool = "configure" /\ last.info.calls[1].rc = 0

\* A run command whose build invocation failed after a good configure.
C11_Witness ==
  /\ last.cmd = "run"
  /\ BuildStepFailed
  /\ last.info.calls[1].rc = 0
  /\ last.handler = EXIT_FAILURE

\* The directory below ROOT/target and the build type that go with a mode.
ModeDir(release) ==
  IF release THEN <<"r", "e", "l", "e", "a", "s", "e">> ELSE <<"d", "e", "b", "u", "g">>
ModeType(release) ==
  IF release THEN <<"R", "e", "l", "e", "a", "s", "e">> ELSE <<"D", "e", "b", "u", "g">>
\* The error lines of the steps that fail for a reason of the environment.
IOFailures ==
  {"Failed to read Sail.toml", "filesystem_error", "Failed to create CMakeLists.txt"}

\* C12: a run that found a root with a manifest naming N and a src
\* directory and no CMakeLists.txt, met no I/O failure and had no process
\* return nonzero, has made ROOT/target/<debug|release> for its mode, has
\* written CMakeLists.txt (the template filled with N when the write went
\* through), has started configure and then build with the build type of the
\* mode, and build_project has returned EXIT_SUCCESS with the path
\* ROOT/target/<debug|release>/N, whether or not a file is there.
C12_SuccessPath ==
  [][ /\ last'.cmd \in {"build", "run"}
      /\ last'.info.root /= EmptyPath
      /\ last'.info.opened
      /\ last'.info.name /= <<>>
      /\ exists(FS, Join(last'.info.root, SrcName))
      /\ ~exists(FS, Join(last'.info.root, CMakeLists))
      /\ last'.info.message \notin IOFailures
      /\ \A i \in 1..Len(last'.info.calls) : last'.info.calls[i].rc = 0
      => LET ROOT == last'.info.root
             N == last'.info.name
             target_dir == Path(ROOT.parts \o <<TargetName, ModeDir(last'.release)>>)
             cmake_path == Path(ROOT.parts \o <<CMakeLists>>)
         IN  /\ {Path(ROOT.parts \o <<TargetName>>), target_dir} \subseteq dirs'
             /\ last'.info.wrote_cmake
             /\ cmake_path \in DOMAIN files'
             /\ last'.info.cmake_write = "full" => files'[cmake_path] = cmake_content(N)
             /\ Len(last'.info.calls) >= 2
             /\ last'.info.calls[1] =
                  [tool |-> "configure", type |-> ModeType(last'.release), rc |-> 0]
             /\ last'.info.calls[2] =
                  [tool |-> "build", type |-> ModeType(last'.release), rc |-> 0]
             /\ last'.info.result = EXIT_SUCCESS
             /\ last'.path = Path(target_dir.parts \o <<N>>) ]_vars

\* A release build that went through, wrote CMakeLists.txt and returned the
\* path of an artifact that is not there.
C12_Witness ==
  /\ Built
  /\ last.release
  /\ last.info.result = EXIT_SUCCESS
  /\ last.info.wrote_cmake
  /\ last.info.cmake_write = "full"
  /\ Len(last.info.calls) >= 2
  /\ last.path /= EmptyPath
  /\ ~exists(FS, last.path)

\* The error lines of the two cmake steps.
ToolchainFailures == {"CMake configuration failed", "Build failed"}

\* C13: after `run`, when build_project returned EXIT_SUCCESS and nothing
\* is at the path it returned, the handler has returned EXIT_FAILURE after
\* reporting the executable not found, an error line that is neither of the
\* configure and build failures, and has started no program.
C13_RunNeedsArtifact ==
  last.cmd = "run" /\ last.info.result = EXIT_SUCCESS /\ ~exists(FS, last.path) =>
    /\ last.handler = EXIT_FAILURE
    /\ last.missing
    /\ last.info.message = "Executable not found"
    /\ last.info.message \notin ToolchainFailures
    /\ CallsOf("run") = {}

\* A release run whose two cmake steps returned 0 and left no executable.
C13_Witness ==
  /\ last.cmd = "run"
  /\ last.release
  /\ last.info.result = EXIT_SUCCESS
  /\ Len(last.info.calls) = 2
  /\ ~exists(FS, last.path)
  /\ last.missing

\* C14: after `build`, the handler has returned a failure exactly when
\* build_project did; when build_project returned EXIT_SUCCESS and nothing
\* is at the path it returned, the handler has warned of it and returned
\* EXIT_SUCCESS.
C14_BuildWarnsOnly ==
  last.cmd = "build" =>
    /\ last.handler /= EXIT_SUCCESS <=> last.info.result /= EXIT_SUCCESS
    /\ last.info.result = EXIT_SUCCESS =>
         /\ last.handler = EXIT_SUCCESS
         /\ last.missing <=> ~exists(FS, last.path)
    /\ last.info.result /= EXIT_SUCCESS => ~last.missing

\* A build that returned EXIT_SUCCESS with a warning about the executable.
C14_Witness ==
  /\ last.cmd = "build"
  /\ last.info.result = EXIT_SUCCESS
  /\ ~exists(FS, last.path)
  /\ last.missing
  /\ last.handler = EXIT_SUCCESS

\* C15: when the text of CMakeLists.txt did not reach the file whole,
\* build_project has returned a failure and has started no process.
C15_PartialWriteFails ==
  Built /\ last.info.wrote_cmake /\ last.info.cmake_write = "partial" =>
    /\ last.info.result /= EXIT_SUCCESS
    /\ last.info.calls = <<>>

---------------------------------------------------------------------------
(* C16, C19: the helper functions, in SpecHelpers.                         *)

\* The path named by the pathname of dir, a separator, and name.
Below(win32, dir, name) == PathOf(win32, PathString(dir) \o Separator \o name)

\* C16: for every target_dir and every non-empty name, get_executable_path
\* returns the path target_dir/name in a build for another platform than
\* Windows and target_dir/name.exe in a build for Windows.
C16_ArtifactPath ==
  call.fn = "get_executable_path" /\ call.returned /\ call.text /= <<>> =>
    call.path = Below(call.win32, call.dir,
                      IF call.win32 THEN call.text \o <<".", "e", "x", "e">>
                      ELSE call.text)

\* text with a backslash put in front of each of its spaces.
RECURSIVE EscapeSpaces(_)
EscapeSpaces(text) ==
  IF text = <<>> THEN <<>>
  ELSE (IF Head(text) = " " THEN <<"\\", " ">> ELSE <<Head(text)>>)
         \o EscapeSpaces(Tail(text))

\* The words the shell makes of a command line of letters, separators,
\* spaces and backslashes: a backslash makes the next character part of the
\* word as it is, a space that follows no such backslash ends the word.
\* word is the word begun at position i, if one is (open).
RECURSIVE ShellScan(_, _, _, _)
ShellScan(s, i, word, open) ==
  IF i > Len(s) THEN (IF open THEN <<word>> ELSE <<>>)
  ELSE IF s[i] = " "
  THEN (IF open THEN <<word>> ELSE <<>>) \o ShellScan(s, i + 1, <<>>, FALSE)
  ELSE IF s[i] = "\\" /\ i < Len(s)
  THEN ShellScan(s, i + 2, Append(word, s[i + 1]), TRUE)
  ELSE ShellScan(s, i + 1, Append(word, s[i]), TRUE)
ShellWords(s) == ShellScan(s, 1, <<>>, FALSE)

\* C19: in a build for another platform than Windows, quote_path returns,
\* after one round of its loop for each space, its argument with one
\* backslash put in front of each space and nothing else changed, and the
\* shell reads the result as one word, the argument.
C19_QuotePathSafe ==
  call.fn = "quote_path" /\ call.returned /\ ~call.win32 =>
    /\ call.result = EscapeSpaces(call.text)
    /\ call.rounds = Cardinality({i \in 1..Len(call.text) : call.text[i] = " "})
    /\ call.text /= <<>> => ShellWords(call.result) = <<call.text>>

---------------------------------------------------------------------------
(* C17, in SpecRun.                                                        *)

\* C17: a `run` in which nothing failed has handed the shell a command line
\* whose words are the path of the executable and then the arguments given
\* after `run`, all of them and in their order.
C17_RunPassesArguments ==
  last.cmd = "run" /\ last.info.message = "none" =>
    /\ CallsOf("run") /= {}
    /\ ShellWords(last.info.run_command) = <<PathString(last.path)>> \o last.args

---------------------------------------------------------------------------
(* C18, C20: what failing runs and the scaffolding commands leave alone.   *)

\* The error lines of steps 1 to 3 of build_project.
EarlyFailures ==
  {"Sail.toml not found", "Failed to read Sail.toml",
   "Could not find project name", "src directory not found"}

\* C18: a run of build_project that fails for want of a manifest, of a
\* readable manifest, of a project name or of the src directory leaves every
\* directory and file as it was, writes no CMakeLists.txt and starts no
\* process; and a run that read a name at a root with no src directory
\* fails that way.
C18_EarlyFailureTouchesNothing ==
  [][ last'.cmd \in {"build", "run"} =>
        /\ last'.info.message \in EarlyFailures =>
             /\ dirs' = dirs
             /\ files' = files
             /\ last'.info.calls = <<>>
             /\ ~last'.info.wrote_cmake
             /\ last'.info.result = EXIT_FAILURE
             /\ last'.path = EmptyPath
        /\ (/\ last'.info.opened
            /\ last'.info.name /= <<>>
            /\ ~exists(FS, Join(last'.info.root, SrcName)))
             => last'.info.message = "src directory not found" ]_vars

\* A run that stopped at the missing src directory of the root it found.
C18_Witness ==
  /\ Built
  /\ last.info.message = "src directory not found"
  /\ last.info.root /= EmptyPath
  /\ last.info.name /= <<>>
  /\ Join(last.info.root, TargetName) \notin dirs

\* C20: `sail init` started where Sail.toml exists fails and changes
\* nothing; `sail new` given a name that exists in the current directory
\* fails and changes nothing; and no run of either command removes or
\* rewrites a file or removes a directory, so that a manifest keeps the
\* content it was created with.
C20_ScaffoldKeepsWhatExists ==
  [][ /\ last'.cmd = "init" /\ exists(FS, Join(cwd, SailToml)) =>
           /\ last'.handler = EXIT_FAILURE
           /\ dirs' = dirs
           /\ files' = files
      /\ last'.cmd = "new" /\ exists(FS, Join(cwd, last'.args[1])) =>
           /\ last'.handler = EXIT_FAILURE
           /\ dirs' = dirs
           /\ files' = files
      /\ last'.cmd \in {"init", "new"} =>
           /\ dirs \subseteq dirs'
           /\ \A p \in DOMAIN files : p \in DOMAIN files' /\ files'[p] = files[p] ]_vars

\* `sail init` refused where the user had written a manifest of their own,
\* which is still there.
C20_Witness ==
  /\ last.cmd = "init"
  /\ last.handler = EXIT_FAILURE
  /\ Join(cwd, SailToml) \in DOMAIN files
  /\ files[Join(cwd, SailToml)] \in SpecTexts
  /\ files[Join(cwd, SailToml)] /= ManifestContent(filename(cwd))

===========================================================================
